---- MODULE Spec2Model ----
(***************************************************************************)
(* Model of the declarative route registration of synapse/util/__init__.py *)
(* (servelet, register_proxy, do_register, transform_path, _On / on).      *)
(*                                                                         *)
(* Python objects live in a heap `objs` (a sequence of object records); a  *)
(* reference is an index into it and 0 stands for None / absent.  A path   *)
(* template is a sequence of one-character strings.  A dict of keyword     *)
(* options is a function from a set of keys to values.                     *)
(***************************************************************************)
EXTENDS Integers, Sequences, FiniteSets, TLC

VARIABLES
    objs,       \* heap: function objects, their _on metadata, closures
    dict,       \* cls.__dict__ of every class: member name -> reference
    declared,   \* the class bodies as written (dict before any servelet)
    recorded,   \* the _on tuple of every object as _On recorded it
    applied,    \* how many times servelet ran on each class
    calls,      \* what the http_server of the latest invocation observed
    inv,        \* the latest invocation of a register routine
    tpl,        \* path compiler: the template
    pattern,    \* path compiler: transform_path(tpl)
    inp,        \* path compiler: the path matched against the pattern
    res,        \* path compiler: the outcome of the match
    phase       \* path compiler: "idle" | "compiled" | "matched"

vars == <<objs, dict, declared, recorded, applied, calls, inv,
          tpl, pattern, inp, res, phase>>
regVars == <<objs, dict, declared, recorded, applied, calls, inv>>
pathVars == <<tpl, pattern, inp, res, phase>>

\* ---------------------------------------------------------------- bounds
MaxApply == 2       \* servelet applications per class
MaxTplLen == 5      \* characters of a path template
MaxInLen == 3       \* characters of a matched path

\* ------------------------------------------------------------ basic data
Classes == {"Base", "Child"}
Parent(c) == IF c = "Child" THEN "Base" ELSE "none"
Names == {"register", "a", "b", "c"}
Servers == {"s1"}

EmptyMap == [k \in {} |-> "0"]
Range(s) == {s[i] : i \in DOMAIN s}
Perms(S) == {s \in [1..Cardinality(S) -> S] :
                \A i, j \in 1..Cardinality(S) : i # j => s[i] # s[j]}

\* the merge with the base options taking precedence
Merge_BaseWins(base, over) == base @@ over

\* {**base, **over}
Merge(base, over) == over @@ base

\* an assignment d[k] = v in place of setdefault
SetDefault_Overwrite(d, k, v) == (k :> v) @@ d

\* d.setdefault(k, v), as the resulting dict
SetDefault(d, k, v) == IF k \in DOMAIN d THEN d ELSE d @@ (k :> v)

\* ------------------------------------------------------ path templates
WordChars == {"a", "b"}

\* index of the "}" closing a placeholder that opens at s[i] = "{", or 0
RECURSIVE WordRunEnd(_, _)
WordRunEnd(s, j) ==
    IF j <= Len(s) /\ s[j] \in WordChars THEN WordRunEnd(s, j + 1) ELSE j

SugarEnd(s, i) ==
    IF s[i] # "{" THEN 0
    ELSE LET j == WordRunEnd(s, i + 1)
         IN IF j > i + 1 /\ j <= Len(s) /\ s[j] = "}" THEN j ELSE 0

Lit(ch) == [cap |-> FALSE, ch |-> ch, name |-> <<>>, min |-> 0]
Group(name, min) == [cap |-> TRUE, ch |-> "", name |-> name, min |-> min]

\* RE_SUGAR.sub(r"(?P<\1>[^/]*)", orig_path): the pattern as a sequence of
\* tokens, a literal character or a named group over [^/] with a minimum
\* number of repetitions
RECURSIVE SugarSub(_, _, _)
SugarSub(s, i, min) ==
    IF i > Len(s) THEN <<>>
    ELSE LET j == SugarEnd(s, i)
         IN IF j = 0 THEN <<Lit(s[i])>> \o SugarSub(s, i + 1, min)
            ELSE <<Group(SubSeq(s, i + 1, j - 1), min)>> \o SugarSub(s, j + 1, min)

\* the substitution with a one-or-more group, (?P<\1>[^/]+)
transform_path_Plus(orig_path) == SugarSub(orig_path, 1, 1)

transform_path(orig_path) == SugarSub(orig_path, 1, 0)

\* ------------------------------------------------------ annotations
StrE(p) == [kind |-> "str", len |-> 0, firstIsStr |-> TRUE,
            secondIsMap |-> FALSE, path |-> p, opts |-> EmptyMap]
TupE(n, fs, p, sm, o) == [kind |-> "tuple", len |-> n, firstIsStr |-> fs,
                          secondIsMap |-> sm, path |-> p, opts |-> o]
PairE(p, o) == TupE(2, TRUE, p, TRUE, o)
OtherE == [kind |-> "other", len |-> 0, firstIsStr |-> FALSE,
           secondIsMap |-> FALSE, path |-> <<>>, opts |-> EmptyMap]

\* _On.__init__ / _internal: method._on = (on_method, path_arg, kwargs)
On(on_method, pathKind, path, seq, kwargs) ==
    [verb |-> on_method, pathKind |-> pathKind, path |-> path,
     seq |-> seq, opts |-> kwargs]
OnStr(on_method, path, kwargs) == On(on_method, "str", path, <<>>, kwargs)
OnSeq(on_method, seq, kwargs) == On(on_method, "iter", <<>>, seq, kwargs)
NoOn == On("", "none", <<>>, <<>>, EmptyMap)

Obj(kind, hasOn, on) ==
    [kind |-> kind, hasOn |-> hasOn, on |-> on,
     methods |-> <<>>, inner |-> 0, orig |-> 0, forcls |-> "none"]

\* callable(method)
Callable(o) == o.kind # "data"

\* ------------------------------------------------------ registration
\* a call observed during an invocation: http_server.register_paths(...)
\* (ev = "register_paths") or the type's own routine being run (ev = "orig")
PathsEv(srv, verb, pat, kw, m, self, by, idx) ==
    [ev |-> "register_paths", server |-> srv, verb |-> verb, pattern |-> pat,
     kwargs |-> kw, method |-> m, self |-> self, clsname |-> self,
     by |-> by, idx |-> idx]
OrigEv(srv, self, r) ==
    [ev |-> "orig", server |-> srv, verb |-> "", pattern |-> <<>>,
     kwargs |-> EmptyMap, method |-> r, self |-> self, clsname |-> "",
     by |-> 0, idx |-> 0]

Raise(st, heap) == [events |-> st.events, raised |-> TRUE, heap |-> heap]

\* do_register: `alias` is the object whose _on[2] dict was passed as
\* client_pattern_kwargs (0 when the dict is a fresh one)
do_register(st, self, srv, verb, pathIsStr, path, kw, alias, m, by, idx) ==
    LET kw2 == SetDefault(kw, "add_stopper", "True")
        heap2 == IF alias # 0
                 THEN [st.heap EXCEPT ![alias].on.opts = kw2]
                 ELSE st.heap
    IN IF ~pathIsStr
       THEN Raise(st, heap2)     \* RE_SUGAR.sub on a non-string: TypeError
       ELSE [events |-> Append(st.events,
                               PathsEv(srv, verb, transform_path(path), kw2,
                                       m, self, by, idx)),
             raised |-> FALSE,
             heap |-> heap2]

\* the element loop with a final `else: raise`
RegisterEntry_Strict(st, self, srv, m, by, i) ==
    LET on == st.heap[m].on
        e == on.seq[i]
    IN IF e.kind = "str"
       THEN do_register(st, self, srv, on.verb, TRUE, e.path, on.opts, m, m, by, i)
       ELSE IF e.kind = "tuple"
       THEN IF e.len < 2 THEN Raise(st, st.heap)
            ELSE IF ~e.secondIsMap THEN Raise(st, st.heap)
            ELSE do_register(st, self, srv, on.verb, e.firstIsStr, e.path,
                             Merge(on.opts, e.opts), 0, m, by, i)
       ELSE Raise(st, st.heap)

\* one element of an iterable path_arg (lines 206-223)
RegisterEntry(st, self, srv, m, by, i) ==
    LET on == st.heap[m].on
        e == on.seq[i]
    IN IF e.kind = "str"
       THEN do_register(st, self, srv, on.verb, TRUE, e.path, on.opts, m, m, by, i)
       ELSE IF e.kind = "tuple"
       THEN IF e.len < 2 THEN Raise(st, st.heap)             \* IndexError
            ELSE IF ~e.secondIsMap THEN Raise(st, st.heap)   \* TypeError
            ELSE do_register(st, self, srv, on.verb, e.firstIsStr, e.path,
                             Merge(on.opts, e.opts), 0, m, by, i)
       ELSE st

RECURSIVE RegisterEntries(_, _, _, _, _, _)
RegisterEntries(st, self, srv, m, by, i) ==
    IF st.raised \/ i > Len(st.heap[m].on.seq) THEN st
    ELSE RegisterEntries(RegisterEntry(st, self, srv, m, by, i),
                         self, srv, m, by, i + 1)

\* the handler body registering only the first element of an iterable
RegisterMethod_FirstOnly(st, self, srv, m, by) ==
    LET on == st.heap[m].on
    IN IF on.pathKind = "str"
       THEN do_register(st, self, srv, on.verb, TRUE, on.path, on.opts, m, m, by, 0)
       ELSE IF on.pathKind = "iter" /\ Len(on.seq) >= 1
       THEN RegisterEntry(st, self, srv, m, by, 1)
       ELSE st

\* the body of `for _method in methods` (lines 197-223)
RegisterMethod(st, self, srv, m, by) ==
    LET on == st.heap[m].on
    IN IF on.pathKind = "str"
       THEN do_register(st, self, srv, on.verb, TRUE, on.path, on.opts, m, m, by, 0)
       ELSE IF on.pathKind = "iter"
       THEN RegisterEntries(st, self, srv, m, by, 1)
       ELSE st

\* register_proxy.register: `by` is the closure, whose methods are kept in
\* the iteration order of its set
RECURSIVE register(_, _, _, _, _)
register(st, self, srv, by, j) ==
    IF st.raised \/ j > Len(st.heap[by].methods) THEN st
    ELSE register(RegisterMethod(st, self, srv, st.heap[by].methods[j], by),
                  self, srv, by, j + 1)

\* calling a routine found under the name "register"
RECURSIVE CallRoutine(_, _, _, _)
\* the bridge running the original routine first
bridge_OrigFirst(st, self, srv, f) ==
    LET r == CallRoutine(st, self, srv, st.heap[f].orig)
    IN IF r.raised THEN r ELSE CallRoutine(r, self, srv, st.heap[f].inner)

\* register_proxy.bridge
bridge(st, self, srv, f) ==
    LET r == CallRoutine(st, self, srv, st.heap[f].inner)
    IN IF r.raised THEN r ELSE CallRoutine(r, self, srv, st.heap[f].orig)

CallRoutine(st, self, srv, f) ==
    LET k == st.heap[f].kind
    IN IF k = "register" THEN register(st, self, srv, f, 1)
       ELSE IF k = "bridge" THEN bridge(st, self, srv, f)
       ELSE [st EXCEPT !.events = Append(@, OrigEv(srv, self, f))]

\* register_proxy(methods, orig_register): the heap with the new closures,
\* and the closure returned; `at` is the first free reference
register_proxy(heap, methods, orig_register, c, at) ==
    LET reg == [Obj("register", FALSE, NoOn) EXCEPT
                    !.methods = methods, !.forcls = c]
        br == [Obj("bridge", FALSE, NoOn) EXCEPT
                    !.inner = at, !.orig = orig_register, !.forcls = c]
    IN IF orig_register = 0
       THEN [heap |-> (at :> reg) @@ heap, fn |-> at]
       ELSE [heap |-> (at :> reg) @@ ((at + 1) :> br) @@ heap, fn |-> at + 1]

\* where the closures of the k-th servelet application on c are allocated
FreeRef(c, k) == (IF c = "Base" THEN 100 ELSE 200) + 2 * k

\* the members of the class and of its ancestor, as dir(cls) would give
Scanned_WithInherited(c) ==
    ({dict[c][n] : n \in Names}
     \cup (IF Parent(c) \in Classes
           THEN {dict[Parent(c)][n] : n \in Names \ {"register"}}
           ELSE {})) \ {0}

\* the members servelet looks at: cls.__dict__.items()
Scanned(c) == {dict[c][n] : n \in Names} \ {0}

\* the set servelet builds (lines 179-183)
HandlerSet(c) == {m \in Scanned(c) : Callable(objs[m]) /\ objs[m].hasOn}

\* installing whatever the size of the set
Installs_Always(methods) == TRUE

\* whether servelet installs a routine (line 185)
Installs(methods) == Cardinality(methods) > 0

\* attribute lookup of "register" on an instance of c
Resolve(d, c) ==
    IF d[c]["register"] # 0 THEN d[c]["register"]
    ELSE IF Parent(c) \in Classes THEN d[Parent(c)]["register"]
    ELSE 0

\* ------------------------------------------------------ the classes
PA == <<"a">>
PB == <<"b", "/", "{", "a", "}">>

F1 == 1    \* function Child.a
F2 == 2    \* function, possibly Child.b
F3 == 3    \* function Base.c
RC == 4    \* Child's hand-written register
RB == 5    \* Base's hand-written register
D == 6     \* a non-callable member that carries _on

AnnF1 ==
    { NoOn,
      OnStr("GET", PA, EmptyMap),
      OnStr("PUT", PB, ("add_stopper" :> "False")),
      OnSeq("POST", <<StrE(PA), PairE(PB, ("x" :> "1")), StrE(PB)>>,
            ("x" :> "0") @@ ("y" :> "2")),
      OnSeq("GET", <<PairE(PA, ("add_stopper" :> "False")), StrE(PB)>>, EmptyMap),
      OnSeq("GET", <<PairE(PA, ("add_stopper" :> "False"))>>,
            ("add_stopper" :> "True")),
      OnSeq("GET", <<StrE(PA), OtherE, StrE(PB)>>, EmptyMap),
      OnSeq("GET", <<StrE(PA), TupE(1, TRUE, PB, FALSE, EmptyMap), StrE(PB)>>,
            EmptyMap),
      OnSeq("GET", <<TupE(3, TRUE, PB, TRUE, ("x" :> "1"))>>, EmptyMap),
      OnSeq("GET", <<TupE(2, FALSE, <<>>, TRUE, EmptyMap)>>, EmptyMap),
      OnSeq("GET", <<TupE(2, TRUE, PA, FALSE, EmptyMap)>>, EmptyMap) }

AnnF2 ==
    { NoOn,
      OnStr("DELETE", PB, EmptyMap),
      OnSeq("OPTIONS", <<OtherE, StrE(PA)>>, ("y" :> "2")),
      OnSeq("GET", <<>>, EmptyMap),
      On("GET", "other", <<>>, <<>>, EmptyMap) }

AnnF3 == { OnStr("GET", PA, EmptyMap) }

Fn(on) == Obj("func", on # NoOn, on)

Init ==
    /\ \E b \in {0, F1, F2, D}, rc \in {0, RC}, rb \in {0, RB} :
         /\ dict = [c \in Classes |->
                      IF c = "Child"
                      THEN [n \in Names |->
                              IF n = "a" THEN F1
                              ELSE IF n = "b" THEN b
                              ELSE IF n = "register" THEN rc ELSE 0]
                      ELSE [n \in Names |->
                              IF n = "c" THEN F3
                              ELSE IF n = "register" THEN rb ELSE 0]]
         \* a function no class body mentions is left undecorated
         /\ \E a1 \in AnnF1, a3 \in AnnF3,
                a2 \in (IF b = F2 THEN AnnF2 ELSE {NoOn}) :
              objs = << Fn(a1), Fn(a2), Fn(a3),
                        Obj("user", FALSE, NoOn), Obj("user", FALSE, NoOn),
                        Obj("data", TRUE, OnStr("GET", PA, EmptyMap)) >>
    /\ declared = dict
    /\ recorded = [i \in DOMAIN objs |-> objs[i].on]
    /\ applied = [c \in Classes |-> 0]
    /\ calls = <<>>
    /\ inv = [self |-> "none", server |-> "none", routine |-> 0,
              raised |-> FALSE, napplied |-> 0]
    /\ tpl = <<>> /\ pattern = <<>> /\ inp = <<>>
    /\ res = [ok |-> FALSE, caps |-> <<>>]
    /\ phase = "idle"

\* servelet(cls)
Servelet(c) ==
    /\ applied[c] < MaxApply
    /\ applied' = [applied EXCEPT ![c] = @ + 1]
    /\ LET methods == HandlerSet(c)
       IN IF Installs(methods)
          THEN \E order \in Perms(methods) :
                 LET p == register_proxy(objs, order, dict[c]["register"], c,
                                         FreeRef(c, applied[c]))
                 IN /\ objs' = p.heap
                    /\ dict' = [dict EXCEPT ![c]["register"] = p.fn]
          ELSE UNCHANGED <<objs, dict>>
    /\ UNCHANGED <<declared, recorded, calls, inv, pathVars>>

\* instance.register(http_server) on an instance of c and a fresh server
Invoke(c, srv) ==
    LET f == Resolve(dict, c)
    IN /\ f # 0
       /\ LET r == CallRoutine([events |-> <<>>, raised |-> FALSE, heap |-> objs],
                               c, srv, f)
          IN /\ calls' = r.events
             /\ objs' = r.heap
             /\ inv' = [self |-> c, server |-> srv, routine |-> f,
                        raised |-> r.raised, napplied |-> applied[c]]
       /\ UNCHANGED <<dict, declared, recorded, applied, pathVars>>

Next ==
    \/ \E c \in Classes : Servelet(c)
    \/ \E c \in Classes, srv \in Servers : Invoke(c, srv)

Spec == Init /\ [][Next]_vars

\* ------------------------------------------------------ path compiler
TplChars == {"a", "b", "/", "{", "}"}
InChars == {"a", "/"}
SeqsUpTo(S, n) == UNION {[1..k -> S] : k \in 0..n}

\* length of the run of characters other than "/" that starts at s[j]
RECURSIVE RunLen(_, _)
RunLen(s, j) == IF j <= Len(s) /\ s[j] # "/" THEN 1 + RunLen(s, j + 1) ELSE 0

SetMax(S) == CHOOSE x \in S : \A y \in S : y <= x

NoMatch == [ok |-> FALSE, caps |-> <<>>]

\* the pattern p from token i on against s from position j on, anchored at
\* the end, groups greedy: the match a backtracking engine finds
RECURSIVE MatchFrom(_, _, _, _)
MatchFrom(p, i, s, j) ==
    IF i > Len(p) THEN [ok |-> j > Len(s), caps |-> <<>>]
    ELSE IF ~p[i].cap
    THEN IF j <= Len(s) /\ s[j] = p[i].ch
         THEN MatchFrom(p, i + 1, s, j + 1)
         ELSE NoMatch
    ELSE LET K == {k \in p[i].min..RunLen(s, j) :
                      MatchFrom(p, i + 1, s, j + k).ok}
         IN IF K = {} THEN NoMatch
            ELSE LET k == SetMax(K)
                 IN [ok |-> TRUE,
                     caps |-> <<SubSeq(s, j, j + k - 1)>>
                              \o MatchFrom(p, i + 1, s, j + k).caps]

\* the compiled pattern applied to a complete path
FullMatch(p, s) == MatchFrom(p, 1, s, 1)

GroupIdx(p) == {i \in DOMAIN p : p[i].cap}

\* the pattern engine refuses a pattern that names two groups alike
Compilable(p) == \A i, j \in GroupIdx(p) : i # j => p[i].name # p[j].name

IdleRes == [ok |-> FALSE, caps |-> <<>>]

InitPath ==
    /\ tpl \in SeqsUpTo(TplChars, MaxTplLen)
    /\ pattern = <<>> /\ inp = <<>> /\ res = IdleRes /\ phase = "idle"
    /\ objs = << Obj("func", FALSE, NoOn) >>
    /\ dict = [c \in Classes |-> [n \in Names |-> 0]]
    /\ declared = dict
    /\ recorded = [i \in DOMAIN objs |-> objs[i].on]
    /\ applied = [c \in Classes |-> 0]
    /\ calls = <<>>
    /\ inv = [self |-> "none", server |-> "none", routine |-> 0,
              raised |-> FALSE, napplied |-> 0]

\* transform_path(tpl)
Compile ==
    /\ phase = "idle"
    /\ pattern' = transform_path(tpl)
    /\ phase' = "compiled"
    /\ UNCHANGED <<tpl, inp, res, regVars>>

\* a request path is matched against the compiled pattern
Match(s) ==
    /\ phase = "compiled"
    /\ Compilable(pattern)
    /\ inp' = s
    /\ res' = FullMatch(pattern, s)
    /\ phase' = "matched"
    /\ UNCHANGED <<tpl, pattern, regVars>>

NextPath ==
    \/ Compile
    \/ \E s \in SeqsUpTo(InChars, MaxInLen) : Match(s)

SpecPath == InitPath /\ [][NextPath]_vars

\* ====================================================== properties
PathsIdx == {j \in DOMAIN calls : calls[j].ev = "register_paths"}
OrigIdx == {j \in DOMAIN calls : calls[j].ev = "orig"}

\* the annotated callables a class body declares itself
DeclaredHandlers(c) ==
    {m \in DOMAIN recorded :
        /\ \E n \in Names : declared[c][n] = m
        /\ objs[m].kind \in {"func", "user"}
        /\ recorded[m].pathKind # "none"}

PairOk(e) == e.kind = "tuple" /\ e.len = 2 /\ e.firstIsStr /\ e.secondIsMap
EntryOk(e) == e.kind = "str" \/ PairOk(e)
WellFormedSpec(on) ==
    \/ on.pathKind = "str"
    \/ on.pathKind = "iter" /\ \A i \in DOMAIN on.seq : EntryOk(on.seq[i])
NumEntries(on) == IF on.pathKind = "str" THEN 1 ELSE Len(on.seq)

\* the entries of a PathSpec as (index) set, 0 standing for a single string
OkEntries(on) ==
    IF on.pathKind = "str" THEN {0}
    ELSE IF on.pathKind = "iter" THEN {i \in DOMAIN on.seq : EntryOk(on.seq[i])}
    ELSE {}
BadEntries(on) ==
    IF on.pathKind = "iter" THEN {i \in DOMAIN on.seq : ~EntryOk(on.seq[i])}
    ELSE {}
NonTupleBad(on) ==
    IF on.pathKind = "iter"
    THEN {i \in DOMAIN on.seq : on.seq[i].kind = "other"}
    ELSE {}

\* the annotation-driven closure that the latest invocation ran first
InnerOf(f) ==
    IF f = 0 THEN 0
    ELSE IF objs[f].kind = "register" THEN f
    ELSE IF objs[f].kind = "bridge" THEN objs[f].inner
    ELSE 0
Ran == InnerOf(inv.routine)
RanHandlers == IF Ran = 0 THEN {} ELSE Range(objs[Ran].methods)
EventsOf(g, m, k) ==
    {j \in PathsIdx : calls[j].by = g /\ calls[j].method = m /\ calls[j].idx = k}

C2_TwiceNoDuplicates ==
    LET c == inv.self
    IN (/\ inv.routine # 0
        /\ inv.napplied = 2
        /\ ~inv.raised
        /\ DeclaredHandlers(c) # {})
       => \A m \in DeclaredHandlers(c) : \A k \in OkEntries(recorded[m]) :
            Cardinality({j \in PathsIdx :
                            calls[j].method = m /\ calls[j].idx = k}) = 1

\* C3: with PathSpecs of strings and (string, options) pairs only, one run of
\* the annotation-driven routine calls register_paths as often as the sum of
\* the handlers' numbers of path entries, whatever the iteration order.
C3_CallCount ==
    (/\ Ran # 0
     /\ ~inv.raised
     /\ \A m \in RanHandlers : WellFormedSpec(recorded[m]))
    => Cardinality({j \in PathsIdx : calls[j].by = Ran})
       = Cardinality(UNION {{m} \X (1..NumEntries(recorded[m])) :
                                m \in RanHandlers})

C3_Witness ==
    /\ Ran # 0 /\ ~inv.raised
    /\ RanHandlers = {F1, F2}
    /\ \A m \in RanHandlers : WellFormedSpec(recorded[m])
    /\ recorded[F1].pathKind = "iter" /\ Len(recorded[F1].seq) = 3
    /\ recorded[F2].pathKind = "str"
    /\ Cardinality({j \in PathsIdx : calls[j].by = Ran}) = 4
    /\ calls[1].method = F2

\* C4: a (path, overrides) entry is registered with the base options
\* overridden key by key; a string entry with the base options.
C4_MergedOptions ==
    \A j \in PathsIdx :
        LET on == recorded[calls[j].method]
            kw == calls[j].kwargs
            base == on.opts
        IN IF calls[j].idx # 0 /\ on.seq[calls[j].idx].kind = "tuple"
           THEN LET over == on.seq[calls[j].idx].opts
                IN /\ \A k \in DOMAIN over : k \in DOMAIN kw /\ kw[k] = over[k]
                   /\ \A k \in DOMAIN base \ DOMAIN over :
                          k \in DOMAIN kw /\ kw[k] = base[k]
                   /\ DOMAIN kw \subseteq
                          DOMAIN base \cup DOMAIN over \cup {"add_stopper"}
           ELSE /\ \A k \in DOMAIN base : k \in DOMAIN kw /\ kw[k] = base[k]
                /\ DOMAIN kw \subseteq DOMAIN base \cup {"add_stopper"}

C4_Witness ==
    \E i, j \in PathsIdx :
        /\ i < j
        /\ calls[i].method = F1 /\ calls[i].idx = 2
        /\ recorded[F1].opts = ("x" :> "0") @@ ("y" :> "2")
        /\ recorded[F1].seq[2].opts = ("x" :> "1")
        /\ calls[i].kwargs["x"] = "1" /\ calls[i].kwargs["y"] = "2"
        /\ calls[j].method = F1 /\ calls[j].idx = 3
        /\ calls[j].kwargs["x"] = "0"

\* C5: every registration carries add_stopper: the per-path override's value
\* if it has one, else the base options' value if they have one, else True.
C5_AddStopperDefault ==
    \A j \in PathsIdx :
        LET on == recorded[calls[j].method]
            kw == calls[j].kwargs
            over == IF calls[j].idx # 0 /\ on.seq[calls[j].idx].kind = "tuple"
                    THEN on.seq[calls[j].idx].opts
                    ELSE EmptyMap
        IN /\ "add_stopper" \in DOMAIN kw
           /\ kw["add_stopper"] =
                IF "add_stopper" \in DOMAIN over THEN over["add_stopper"]
                ELSE IF "add_stopper" \in DOMAIN on.opts THEN on.opts["add_stopper"]
                ELSE "True"

C5_Witness ==
    /\ \E j \in PathsIdx :
          /\ "add_stopper" \notin DOMAIN recorded[calls[j].method].opts
          /\ calls[j].idx = 0
          /\ calls[j].kwargs["add_stopper"] = "True"
    /\ \E j \in PathsIdx :
          /\ calls[j].method = F1 /\ calls[j].idx = 0
          /\ recorded[F1].opts = ("add_stopper" :> "False")
          /\ calls[j].kwargs["add_stopper"] = "False"

\* C6: servelet on a type without an annotated handler of its own changes
\* nothing: no register attribute is set, the type's own routine stays the
\* same object, and the routine it resolves stays the one it inherited.
C6_NoHandlersUnmodified ==
    [][\A c \in Classes :
          (applied'[c] # applied[c] /\ DeclaredHandlers(c) = {})
          => /\ dict'[c] = dict[c]
             /\ dict'[c]["register"] = declared[c]["register"]
             /\ Resolve(dict', c) = Resolve(dict, c)
             /\ objs' = objs]_vars

C6_Witness ==
    /\ applied["Child"] >= 1
    /\ DeclaredHandlers("Child") = {}
    /\ declared["Child"]["b"] = D
    /\ dict["Child"]["register"] = 0
    /\ Resolve(dict, "Child") # 0
    /\ objs[Resolve(dict, "Child")].kind = "bridge"
    /\ inv.self = "Child"

C6_WitnessOwn ==
    /\ applied["Child"] >= 1
    /\ DeclaredHandlers("Child") = {}
    /\ dict["Child"]["register"] = RC

\* C7: the handler set built for a type is exactly the annotated callables
\* declared on the type itself, and the routine installed on the type never
\* registers a handler the type only inherits.
C7_OwnMembersOnly ==
    /\ \A g \in DOMAIN objs :
          objs[g].kind = "register"
          => Range(objs[g].methods) = DeclaredHandlers(objs[g].forcls)
    /\ (inv.routine # 0 /\ objs[inv.routine].forcls = inv.self)
       => \A j \in PathsIdx :
             \E n \in Names : declared[inv.self][n] = calls[j].method

C7_Witness ==
    /\ inv.self = "Child" /\ inv.routine # 0
    /\ objs[inv.routine].forcls = "Child"
    /\ recorded[F3].pathKind = "str"
    /\ declared["Base"]["c"] = F3
    /\ declared["Child"]["b"] = D
    /\ PathsIdx # {}
    /\ \A j \in PathsIdx : calls[j].method = F1

\* C9: the (verb, paths, options) recorded on a handler never change.
C9_AnnotationImmutable ==
    \A m \in DOMAIN recorded : objs[m].on = recorded[m]

LongPair(e) == e.kind = "tuple" /\ e.len > 2 /\ e.firstIsStr /\ e.secondIsMap
RaisingTuple(e) ==
    e.kind = "tuple" /\ (e.len < 2 \/ ~e.firstIsStr \/ ~e.secondIsMap)

Groups(p) == Cardinality(GroupIdx(p))
SlashFree == SeqsUpTo(InChars \ {"/"}, MaxInLen)

\* the path a pattern spells when its groups take the values v, in order
RECURSIVE Subst(_, _, _, _)
Subst(p, i, v, g) ==
    IF i > Len(p) THEN <<>>
    ELSE IF p[i].cap THEN v[g] \o Subst(p, i + 1, v, g + 1)
    ELSE <<p[i].ch>> \o Subst(p, i + 1, v, g)

Fillings == {v \in [1..Groups(pattern) -> SlashFree] :
                Subst(pattern, 1, v, 1) = inp}

\* every group stands alone between "/" or the ends of the pattern
Delimited(p) ==
    \A i \in GroupIdx(p) :
        /\ i = 1 \/ (~p[i - 1].cap /\ p[i - 1].ch = "/")
        /\ i = Len(p) \/ (~p[i + 1].cap /\ p[i + 1].ch = "/")

\* C8 (as stated): a placeholder matches one or more characters other than
\* "/", so a matched path never has an empty placeholder segment.
C8_OneOrMore ==
    (phase = "matched" /\ res.ok)
    => \A g \in DOMAIN res.caps : Len(res.caps[g]) >= 1

\* C8 (amended): a placeholder becomes a named group that matches zero or
\* more characters other than "/": a path matches exactly when it is the
\* template with every placeholder replaced by some "/"-free string, the
\* empty one included, and a placeholder standing alone in its segment
\* captures that segment whole.
C8_ZeroOrMore ==
    phase = "matched"
    => /\ res.ok <=> Fillings # {}
       /\ res.ok => res.caps \in Fillings
       /\ (res.ok /\ Delimited(pattern)) => Fillings = {res.caps}

C8_Witness ==
    /\ phase = "matched"
    /\ tpl = <<"a", "/", "{", "a", "}">>
    /\ pattern = <<Lit("a"), Lit("/"), Group(<<"a">>, 0)>>
    /\ inp = <<"a", "/">>
    /\ res.ok
    /\ res.caps = << <<>> >>

C8_WitnessWhole ==
    /\ phase = "matched"
    /\ tpl = <<"{", "b", "}", "/", "a">>
    /\ inp = <<"a", "/", "a">>
    /\ res.ok
    /\ res.caps = << <<"a">> >>

====
